---- MODULE Spec2Model ----
(***************************************************************************)
(* Squad Elimination (src/Script.mts): the Team and Player classes, the    *)
(* GameState match controller and the round loop of OnGameModeStarted.     *)
(*                                                                         *)
(* Two specifications share the state.                                     *)
(*   Spec       the script as it runs: OnGameModeStarted step by step,     *)
(*              suspended at `await mod.Wait(1)`, where the host delivers  *)
(*              its events.  The exported hooks of the source are empty    *)
(*              (OnPlayerDied), so a delivered death changes nothing; a    *)
(*              squad's elimination is the call Team.handleTeamElimination.*)
(*   SpecSquad  the Team and Player methods inside one running round,      *)
(*              called in the sequences the design prescribes for a death  *)
(*              and for a revive (no hook of the source issues them).      *)
(*                                                                         *)
(* game.teams and game.players are filled by no line of the source: the    *)
(* maps the constructor makes are empty.  The roster is therefore an input *)
(* of the model, the empty one included.                                   *)
(***************************************************************************)
EXTENDS Integers, FiniteSets, Sequences, TLC

VARIABLES
    game,            \* the GameState singleton (Script.mts:221)
    pc,              \* where OnGameModeStarted stands
    roundNumber,     \* local of OnGameModeStarted (Script.mts:242)
    roundTimerSecs,  \* local of OnGameModeStarted (Script.mts:250)
    log,             \* the last lifecycle message written with console.log
    sdDied           \* squads that were told of a death while in sudden death
                     \* and not yet eliminated, in the current round (history)

vars == <<game, pc, roundNumber, roundTimerSecs, log, sdDied>>

----------------------------------------------------------------------------
(* Program constants *)

NUMBER_OF_TEAMS == 6
INITIAL_TEAM_REVIVES == 4
ROUNDS_TO_WIN == 2
MAX_NUMBER_OF_ROUNDS == 7
ROUND_TIMER_SECS == 600
SUDDEN_DEATH_TIMER_SECS == 120
TEAM_PLAYERS == 4

(* Bounds of the model *)

\* squads the host eliminates in one round of Spec
MaxEliminations == 2
\* squads told of a death during one sudden death of Spec
MaxNotified == 1
\* how far below zero SpecSquad follows teamPlayersAlive
MaxUnderflow == 2
\* highest round index SpecSquad restarts
MaxSquadRound == 1

\* roster sizes Spec starts from: none (what the constructor leaves), one,
\* two, and the six the rules name
RosterSizes == {0, 1, 2, NUMBER_OF_TEAMS}

----------------------------------------------------------------------------
(* class Team *)

Team(teamId) ==
    [ teamId           |-> teamId,
      teamScore        |-> 0,
      teamRevivesLeft  |-> INITIAL_TEAM_REVIVES,
      teamPlayersAlive |-> TEAM_PLAYERS,
      teamEliminated   |-> FALSE ]

\* mutant: the revives spent are not given back
roundResetKeepsRevives(t) ==
    [t EXCEPT !.teamPlayersAlive = TEAM_PLAYERS,
              !.teamEliminated   = FALSE]

roundReset(t) ==
    [t EXCEPT !.teamRevivesLeft  = INITIAL_TEAM_REVIVES,
              !.teamPlayersAlive = TEAM_PLAYERS,
              !.teamEliminated   = FALSE]

handleTeamElimination(t) ==
    [t EXCEPT !.teamEliminated = TRUE]

\* mutant: a revive brings the squad back into the round
handleTeamReviveUneliminates(t) ==
    [t EXCEPT !.teamRevivesLeft  = @ - 1,
              !.teamPlayersAlive = @ + 1,
              !.teamEliminated   = FALSE]

handleTeamRevive(t) ==
    [t EXCEPT !.teamRevivesLeft  = @ - 1,
              !.teamPlayersAlive = @ + 1]

\* mutant: the elimination test misses zero
handleTeamDeathBelowZero(t) ==
    LET d == [t EXCEPT !.teamPlayersAlive = @ - 1]
    IN  IF d.teamPlayersAlive < 0 THEN handleTeamElimination(d) ELSE d

\* mutant: the squad is out with its last player still standing
handleTeamDeathLastStanding(t) ==
    LET d == [t EXCEPT !.teamPlayersAlive = @ - 1]
    IN  IF d.teamPlayersAlive <= 1 THEN handleTeamElimination(d) ELSE d

handleTeamDeath(t) ==
    LET d == [t EXCEPT !.teamPlayersAlive = @ - 1]
    IN  IF d.teamPlayersAlive = 0 THEN handleTeamElimination(d) ELSE d

hasTeamRevivesLeft(t) == t.teamRevivesLeft > 0

hasTeamPlayersAlive(t) == t.teamPlayersAlive > 0

isTeamEliminated(t) == t.teamEliminated

\* mutant: a round win counts double
addRoundWinTwice(t) == [t EXCEPT !.teamScore = @ + 2]

addRoundWin(t) == [t EXCEPT !.teamScore = @ + 1]

\* mutant: more than ROUNDS_TO_WIN wins are asked for
hasWonGameStrict(t) == t.teamScore > ROUNDS_TO_WIN

hasWonGame(t) == t.teamScore >= ROUNDS_TO_WIN

----------------------------------------------------------------------------
(* class Player *)

Player(playerId) ==
    [ playerId     |-> playerId,
      playerTeam   |-> -1,
      playerAlive  |-> TRUE,
      playerPinged |-> FALSE ]

handlePlayerDeath(p) == [p EXCEPT !.playerAlive = FALSE]

handlePlayerRevive(p) == [p EXCEPT !.playerAlive = TRUE]

isPlayerAlive(p) == p.playerAlive

\* mutant: the revives left are not looked at
canBeRevivedRevivesUnchecked(p, teams) ==
    IF p.playerAlive THEN FALSE
    ELSE IF p.playerTeam \notin DOMAIN teams THEN FALSE
    ELSE hasTeamPlayersAlive(teams[p.playerTeam])

canBeRevived(p, teams) ==
    IF p.playerAlive THEN FALSE
    ELSE IF p.playerTeam \notin DOMAIN teams THEN FALSE
    ELSE /\ hasTeamRevivesLeft(teams[p.playerTeam])
         /\ hasTeamPlayersAlive(teams[p.playerTeam])

setPlayerPinged(p, isPinged) == [p EXCEPT !.playerPinged = isPinged]

----------------------------------------------------------------------------
(* class GameState *)

GameState ==
    [ gameStarted        |-> FALSE,
      gameEnded          |-> FALSE,
      gameRound          |-> -1,
      teams              |-> << >>,
      players            |-> << >>,
      roundStarted       |-> FALSE,
      roundEnded         |-> FALSE,
      roundTimerSecs     |-> 0,
      roundInSuddenDeath |-> FALSE ]

startGame(g) ==
    [g EXCEPT !.gameStarted = TRUE, !.gameEnded = FALSE]

endGame(g) ==
    [g EXCEPT !.gameStarted = FALSE, !.gameEnded = TRUE, !.gameRound = -1]

startNewRound(g, n) ==
    [g EXCEPT !.gameRound          = n,
              !.roundStarted       = TRUE,
              !.roundEnded         = FALSE,
              !.roundTimerSecs     = 0,
              !.roundInSuddenDeath = FALSE,
              !.teams   = [i \in DOMAIN g.teams |-> roundReset(g.teams[i])],
              !.players = [i \in DOMAIN g.players |->
                              setPlayerPinged(g.players[i], FALSE)]]

\* mutant: the round is marked ended and left started
endRoundStillStarted(g) ==
    [g EXCEPT !.roundEnded = TRUE]

\* mutant: the end of the round also ends the sudden death
endRoundLeavesSuddenDeath(g) ==
    [g EXCEPT !.roundStarted = FALSE, !.roundEnded = TRUE,
              !.roundInSuddenDeath = FALSE]

endRound(g) ==
    [g EXCEPT !.roundStarted = FALSE, !.roundEnded = TRUE]

roundEnterSuddenDeath(g) ==
    [g EXCEPT !.roundInSuddenDeath = TRUE,
              !.players = [i \in DOMAIN g.players |->
                              setPlayerPinged(g.players[i], TRUE)]]

\* mutant: the filter is left out
getAliveTeamsUnfiltered(g) == DOMAIN g.teams

\* the ids of the teams the filter keeps; the map is filled in id order
getAliveTeams(g) ==
    {i \in DOMAIN g.teams : ~isTeamEliminated(g.teams[i])}

\* element [0] of a non-empty list of team ids in map order
First(ids) == CHOOSE i \in ids : \A j \in ids : i <= j

----------------------------------------------------------------------------
(* The roster: teams 0..n-1, four players each, player 4t+k in team t *)

RosterTeams(n) == [i \in 0 .. n - 1 |-> Team(i)]

RosterPlayers(n) ==
    [i \in 0 .. TEAM_PLAYERS * n - 1 |->
        [Player(i) EXCEPT !.playerTeam = i \div TEAM_PLAYERS]]

PlayersOf(g, t) == {i \in DOMAIN g.players : g.players[i].playerTeam = t}

Init ==
    /\ \E n \in RosterSizes :
          game = [GameState EXCEPT !.teams = RosterTeams(n),
                                   !.players = RosterPlayers(n)]
    /\ pc = "init"
    /\ roundNumber = 0
    /\ roundTimerSecs = 0
    /\ log = [kind |-> "none", team |-> -1]
    /\ sdDied = {}

----------------------------------------------------------------------------
(* OnGameModeStarted, one action per stretch of code between two tests *)

\* Script.mts:239-242
Start ==
    /\ pc = "init"
    /\ game' = startGame(game)
    /\ log' = [kind |-> "gameStarted", team |-> -1]
    /\ roundNumber' = 0
    /\ pc' = "matchLoop"
    /\ UNCHANGED <<roundTimerSecs, sdDied>>

\* mutant: the rounds are played out whoever has won
MatchGoesOnToTheEnd ==
    roundNumber < MAX_NUMBER_OF_ROUNDS

\* mutant: one round too many
MatchGoesOnInclusive ==
    /\ \A i \in DOMAIN game.teams : ~hasWonGame(game.teams[i])
    /\ roundNumber <= MAX_NUMBER_OF_ROUNDS

\* the test of the outer while
MatchGoesOn ==
    /\ \A i \in DOMAIN game.teams : ~hasWonGame(game.teams[i])
    /\ roundNumber < MAX_NUMBER_OF_ROUNDS

\* Script.mts:243-250
MatchLoop ==
    /\ pc = "matchLoop"
    /\ IF MatchGoesOn
       THEN /\ game' = startNewRound(game, roundNumber)
            /\ roundTimerSecs' = 0
            /\ log' = [kind |-> "roundStarting", team |-> -1]
            /\ sdDied' = {}
            /\ pc' = "roundLoop"
       ELSE /\ pc' = "gameResult"
            /\ UNCHANGED <<game, roundTimerSecs, log, sdDied>>
    /\ UNCHANGED roundNumber

\* mutant: one tick too many
RoundGoesOnInclusive(g, secs) ==
    /\ Cardinality(getAliveTeams(g)) > 1
    /\ secs <= ROUND_TIMER_SECS + SUDDEN_DEATH_TIMER_SECS

\* the test of the inner while, on the team map and the local timer
RoundGoesOn(g, secs) ==
    /\ Cardinality(getAliveTeams(g)) > 1
    /\ secs < ROUND_TIMER_SECS + SUDDEN_DEATH_TIMER_SECS

\* Script.mts:251-255: the first test of the inner while
RoundLoop ==
    /\ pc = "roundLoop"
    /\ pc' = IF RoundGoesOn(game, roundTimerSecs) THEN "waiting" ELSE "roundOutcome"
    /\ UNCHANGED <<game, roundNumber, roundTimerSecs, log, sdDied>>

\* Script.mts:255-262 and the next test at 251-254: mod.Wait(1) returns, the
\* body runs and the loop condition is evaluated again, with no suspension
\* in between
Tick ==
    /\ pc = "waiting"
    /\ IF roundTimerSecs = ROUND_TIMER_SECS
       THEN /\ game' = roundEnterSuddenDeath(game)
            /\ log' = [kind |-> "suddenDeath", team |-> -1]
       ELSE UNCHANGED <<game, log>>
    /\ roundTimerSecs' = roundTimerSecs + 1
    /\ pc' = IF RoundGoesOn(game', roundTimerSecs') THEN "waiting" ELSE "roundOutcome"
    /\ UNCHANGED <<roundNumber, sdDied>>

\* Script.mts:264-275
RoundOutcome ==
    /\ pc = "roundOutcome"
    /\ LET alive == getAliveTeams(game)
       IN  IF Cardinality(alive) = 1
           THEN /\ game' = [game EXCEPT
                      !.teams[First(alive)] = addRoundWin(@)]
                /\ log' = [kind |-> "roundWon", team |-> First(alive)]
           ELSE /\ log' = [kind |-> "roundEnded", team |-> -1]
                /\ UNCHANGED game
    /\ pc' = "endRound"
    /\ UNCHANGED <<roundNumber, roundTimerSecs, sdDied>>

\* mutant: the round counter is not advanced
EndRoundSameRound ==
    /\ pc = "endRound"
    /\ game' = endRound(game)
    /\ pc' = "matchLoop"
    /\ UNCHANGED <<roundNumber, roundTimerSecs, log, sdDied>>

\* Script.mts:277-278
EndRound ==
    /\ pc = "endRound"
    /\ game' = endRound(game)
    /\ roundNumber' = roundNumber + 1
    /\ pc' = "matchLoop"
    /\ UNCHANGED <<roundTimerSecs, log, sdDied>>

\* Script.mts:281-288
GameResult ==
    /\ pc = "gameResult"
    /\ LET winningTeamList == {i \in DOMAIN game.teams : hasWonGame(game.teams[i])}
       IN  log' = IF Cardinality(winningTeamList) = 1
                  THEN [kind |-> "gameWon", team |-> First(winningTeamList)]
                  ELSE [kind |-> "gameLost", team |-> -1]
    /\ game' = endGame(game)
    /\ pc' = "done"
    /\ UNCHANGED <<roundNumber, roundTimerSecs, sdDied>>

----------------------------------------------------------------------------
(* What the host does while the round loop is suspended *)

\* the exported hook: its body is empty, so the call changes no variable of
\* the program.  The history records the call a property speaks of: a death
\* in sudden death of a player of a squad not yet eliminated.  Every other
\* call of the hook is a stuttering step, which [Next]_vars allows.
OnPlayerDied(eventPlayer) ==
    /\ pc = "waiting"
    /\ eventPlayer \in DOMAIN game.players
    /\ LET t == game.players[eventPlayer].playerTeam
       IN  /\ game.roundInSuddenDeath
           /\ ~isTeamEliminated(game.teams[t])
           /\ t \notin sdDied
           /\ Cardinality(sdDied) < MaxNotified
           /\ sdDied' = sdDied \cup {t}
    /\ UNCHANGED <<game, pc, roundNumber, roundTimerSecs, log>>

\* a squad is eliminated: Team.handleTeamElimination on a team of the map
TeamEliminated(t) ==
    /\ pc = "waiting"
    /\ t \in DOMAIN game.teams
    /\ ~isTeamEliminated(game.teams[t])
    /\ Cardinality(DOMAIN game.teams \ getAliveTeams(game)) < MaxEliminations
    /\ game' = [game EXCEPT !.teams[t] = handleTeamElimination(@)]
    /\ UNCHANGED <<pc, roundNumber, roundTimerSecs, log, sdDied>>

Next ==
    \/ Start
    \/ MatchLoop
    \/ RoundLoop
    \/ Tick
    \/ RoundOutcome
    \/ EndRound
    \/ GameResult
    \/ \E p \in DOMAIN game.players : OnPlayerDied(p)
    \/ \E t \in DOMAIN game.teams : TeamEliminated(t)

Spec == Init /\ [][Next]_vars

\* the steps of OnGameModeStarted itself.  The script is one cooperative
\* thread: between two suspensions it runs on, and a suspension in
\* mod.Wait(1) ends when the host delivers the tick.  The host's events are
\* under no such obligation.
Script ==
    \/ Start
    \/ MatchLoop
    \/ RoundLoop
    \/ Tick
    \/ RoundOutcome
    \/ EndRound
    \/ GameResult

SpecFair == Spec /\ WF_vars(Script)

----------------------------------------------------------------------------
(* SpecSquad: the Team and Player methods inside a running round.  The     *)
(* source holds the methods and no caller of them; the calls are made in   *)
(* the sequences the design gives for a death and for a revive.            *)

\* the players of SpecSquad: the four of squad 0 and one player as the
\* constructor leaves it, with no squad (playerTeam -1)
SquadPlayers == RosterPlayers(1) @@ (TEAM_PLAYERS :> Player(TEAM_PLAYERS))

\* a match whose first round has just started (startGame, then
\* startNewRound(0)), suspended in the round loop.  One squad of four: the
\* actions of SpecSquad touch one squad and its players, or all alike.
InitSquad ==
    /\ game = startNewRound(
                 startGame([GameState EXCEPT
                               !.teams = RosterTeams(1),
                               !.players = SquadPlayers]), 0)
    /\ pc = "waiting"
    /\ roundNumber = 0
    /\ roundTimerSecs = 0
    /\ log = [kind |-> "roundStarting", team |-> -1]
    /\ sdDied = {}

\* a death of player p: outside sudden death Player.handlePlayerDeath then
\* Team.handleTeamDeath; in sudden death every player of the squad is marked
\* dead and Team.handleTeamElimination is called.  A player of no squad is
\* marked dead and no squad is touched.
DeathEvent(p) ==
    /\ p \in DOMAIN game.players
    /\ LET t == game.players[p].playerTeam
       IN  IF t \notin DOMAIN game.teams
           THEN game' = [game EXCEPT !.players[p] = handlePlayerDeath(@)]
           ELSE /\ game.teams[t].teamPlayersAlive > -MaxUnderflow
                /\ IF ~game.roundInSuddenDeath
                   THEN game' = [game EXCEPT
                                    !.players[p] = handlePlayerDeath(@),
                                    !.teams[t] = handleTeamDeath(@)]
                   ELSE game' = [game EXCEPT
                                    !.players = [i \in DOMAIN game.players |->
                                        IF game.players[i].playerTeam = t
                                        THEN handlePlayerDeath(game.players[i])
                                        ELSE game.players[i]],
                                    !.teams[t] = handleTeamElimination(@)]
    /\ UNCHANGED <<pc, roundNumber, roundTimerSecs, log, sdDied>>

\* a revive of player p: rejected unless Player.canBeRevived, else
\* Player.handlePlayerRevive then Team.handleTeamRevive
ReviveEvent(p) ==
    /\ p \in DOMAIN game.players
    /\ IF canBeRevived(game.players[p], game.teams)
       THEN game' = [game EXCEPT
                        !.players[p] = handlePlayerRevive(@),
                        !.teams[game.players[p].playerTeam] = handleTeamRevive(@)]
       ELSE UNCHANGED game
    /\ UNCHANGED <<pc, roundNumber, roundTimerSecs, log, sdDied>>

\* the base timer ran out: GameState.roundEnterSuddenDeath
SquadSuddenDeath ==
    /\ ~game.roundInSuddenDeath
    /\ game' = roundEnterSuddenDeath(game)
    /\ UNCHANGED <<pc, roundNumber, roundTimerSecs, log, sdDied>>

\* the round indices startNewRound is called with: the first ones, the one
\* just below them and the one just past the last round
RoundIndices == (-1 .. MaxSquadRound) \cup {MAX_NUMBER_OF_ROUNDS}

\* the round is over and round n starts: GameState.endRound, then
\* GameState.startNewRound(n)
SquadNewRound(n) ==
    /\ game' = startNewRound(endRound(game), n)
    /\ UNCHANGED <<pc, roundNumber, roundTimerSecs, log, sdDied>>

\* GameState.endRound, whether a round is active or not (when none is, the
\* method writes a debug line and sets the two flags all the same)
SquadEndRound ==
    /\ game' = endRound(game)
    /\ UNCHANGED <<pc, roundNumber, roundTimerSecs, log, sdDied>>

NextSquad ==
    \/ \E p \in DOMAIN game.players : DeathEvent(p)
    \/ \E p \in DOMAIN game.players : ReviveEvent(p)
    \/ SquadSuddenDeath
    \/ \E n \in RoundIndices : SquadNewRound(n)
    \/ SquadEndRound

SpecSquad == InitSquad /\ [][NextSquad]_vars

----------------------------------------------------------------------------
(* Vocabulary of the properties, read off the state and not off the        *)
(* operators above                                                         *)

Squads == DOMAIN game.teams

Unelim(g) == {i \in DOMAIN g.teams : g.teams[i].teamEliminated = FALSE}

Scores(g) == [i \in DOMAIN g.teams |-> g.teams[i].teamScore]

Winners(g) == {i \in DOMAIN g.teams : g.teams[i].teamScore >= 2}

AllPinged(g) == \A p \in DOMAIN g.players : g.players[p].playerPinged

\* the round loop is running: suspended, or just left
InRound == pc \in {"waiting", "roundOutcome"}

----------------------------------------------------------------------------
(* C2: during sudden death, the first death notification for a player of a *)
(* squad that is not yet eliminated leaves that squad eliminated and all   *)
(* its players dead, whatever its playersAlive was.  Stated of the step    *)
(* that delivers the notification (the squad enters sdDied).               *)
C2_SuddenDeathDeathEliminates ==
    [][\A t \in Squads :
          (t \in sdDied' /\ t \notin sdDied)
          => /\ game'.teams[t].teamEliminated
             /\ \A p \in PlayersOf(game', t) : ~game'.players[p].playerAlive]_vars

(* C3: in a round that keeps two squads, suddenDeath is false after every  *)
(* tick before the 600th and true from the 600th tick on, with every       *)
(* player pinged.  roundTimerSecs counts the ticks of the round so far.    *)
C3_SuddenDeathAtTick600 ==
    InRound =>
       /\ game.roundInSuddenDeath <=> (roundTimerSecs >= 600)
       /\ game.roundInSuddenDeath => AllPinged(game)

(* C4: when the tick loop has exited, exactly one un-eliminated squad gets *)
(* one more round win and no other score moves; with none or several left  *)
(* no score moves; and no other step moves a score.                        *)
C4_RoundOutcome ==
    [][IF pc = "roundOutcome"
       THEN LET left == Unelim(game)
            IN  \A i \in Squads :
                   Scores(game')[i] = Scores(game)[i] +
                      (IF Cardinality(left) = 1 /\ i \in left THEN 1 ELSE 0)
       ELSE Scores(game') = Scores(game)]_vars

\* a round of several squads was won by the one squad left
C4_Witness ==
    /\ pc = "endRound"
    /\ Cardinality(Squads) > 1
    /\ Cardinality(Unelim(game)) = 1
    /\ \E i \in Unelim(game) : game.teams[i].teamScore = 1

(* C5 as written: with six squads and no deaths in a round, the tick loop  *)
(* exits after exactly 720 ticks with all six un-eliminated, the round is  *)
(* contested, no score moves, and the next round is started.               *)
SixUntouched(g) == DOMAIN g.teams = 0 .. 5 /\ Unelim(g) = 0 .. 5

C5_ExitAt720 ==
    (pc = "roundOutcome" /\ SixUntouched(game))
       => roundTimerSecs = 720 /\ game.roundInSuddenDeath

C5_Contested ==
    (pc = "roundOutcome" /\ SixUntouched(game))
       => /\ Scores(game') = Scores(game)
          /\ log'.kind = "roundEnded"

C5_SixSquadsNoDeaths ==
    [][/\ C5_ExitAt720
       /\ C5_Contested
       /\ (pc = "matchLoop" /\ roundNumber >= 1 /\ SixUntouched(game))
             => /\ pc' = "roundLoop"
                /\ game'.roundStarted /\ game'.gameRound = roundNumber]_vars

(* C5 as amended: the same, and the next round is started unless the round *)
(* was the seventh, after which the game ends with no winner.              *)
C5_SixSquadsNoDeathsUpToRound7 ==
    [][/\ C5_ExitAt720
       /\ C5_Contested
       /\ (pc = "matchLoop" /\ roundNumber >= 1 /\ SixUntouched(game))
             => IF roundNumber < 7
                THEN /\ pc' = "roundLoop"
                     /\ game'.roundStarted /\ game'.gameRound = roundNumber
                ELSE pc' = "gameResult"
       /\ (pc = "gameResult" /\ SixUntouched(game))
             => log'.kind = "gameLost" /\ game'.gameEnded]_vars

\* six squads have sat through the 720 ticks of a round untouched
C5_Witness ==
    /\ pc = "endRound"
    /\ SixUntouched(game)
    /\ roundTimerSecs = 720
    /\ log.kind = "roundEnded"

(* C6: once a round has resolved with a squad at two round wins, no round  *)
(* is started any more: the game ends, gameStarted false, gameEnded true,  *)
(* gameRound -1, and that squad is announced the winner, also before seven *)
(* rounds were played.                                                     *)
C6_WinnerEndsGame ==
    [][/\ (pc = "matchLoop" /\ Winners(game) # {})
             => pc' = "gameResult" /\ game' = game
       /\ (pc = "gameResult" /\ Winners(game) # {})
             => /\ ~game'.gameStarted /\ game'.gameEnded /\ game'.gameRound = -1
                /\ log'.kind = "gameWon" /\ log'.team \in Winners(game)
       /\ (pc' \in {"roundLoop", "waiting"}) => Winners(game') = {}]_vars

\* the game was won in fewer than seven rounds, in a roster of several
C6_Witness ==
    /\ pc = "done"
    /\ log.kind = "gameWon"
    /\ roundNumber < 7
    /\ Cardinality(Squads) > 1

(* C7: rounds are started with indices 0..6 only, at most seven of them;   *)
(* after seven rounds with no squad at two wins the game ends with no      *)
(* winner.                                                                 *)
C7_SevenRoundsAtMost ==
    [][/\ (pc = "matchLoop" /\ pc' = "roundLoop")
             => game'.gameRound \in 0 .. 6 /\ game'.gameRound = roundNumber
       /\ roundNumber' \in 0 .. 7
       /\ (pc = "matchLoop" /\ roundNumber = 7) => pc' = "gameResult"
       /\ (pc = "gameResult" /\ Winners(game) = {})
             => /\ log'.kind = "gameLost"
                /\ ~game'.gameStarted /\ game'.gameEnded /\ game'.gameRound = -1
                /\ Winners(game') = {}]_vars

\* seven rounds were played by several squads and nobody won
C7_Witness ==
    /\ pc = "done"
    /\ roundNumber = 7
    /\ log.kind = "gameLost"
    /\ Cardinality(Squads) > 1
    /\ \E i \in Squads : game.teams[i].teamScore = 1

(* C8: after startGame() the match holds exactly the six squads 0..5, each *)
(* with roundsWon 0, and gameStarted is true, gameEnded false.             *)
C8_SixSquadsAfterStartGame ==
    (pc = "matchLoop" /\ roundNumber = 0)
       => /\ DOMAIN game.teams = 0 .. 5
          /\ \A i \in DOMAIN game.teams : game.teams[i].teamScore = 0
          /\ game.gameStarted /\ ~game.gameEnded

----------------------------------------------------------------------------
C9_CountersInRange ==
    \A t \in Squads :
       /\ game.teams[t].teamRevivesLeft >= 0
       /\ game.teams[t].teamPlayersAlive >= 0
       /\ game.teams[t].teamPlayersAlive <= 4

(* C10: a death applied to a squad whose playersAlive is 0 leaves it at 0: *)
(* no step takes playersAlive from 0 to a negative number.                 *)
C10_DeathAtZeroClamped ==
    [][\A t \in Squads :
          game.teams[t].teamPlayersAlive = 0
             => game'.teams[t].teamPlayersAlive >= 0]_vars

----------------------------------------------------------------------------
(* C11: a revive aimed at a player of a squad that is already eliminated   *)
(* in the current round is rejected and changes nothing.  Stated of every  *)
(* step that leaves the squad eliminated (so not the start of a round):    *)
(* no player of the squad comes back alive, revivesRemaining keeps its     *)
(* value and playersAlive does not grow.                                   *)
C11_NoReviveInEliminatedSquad ==
    [][\A t \in Squads :
          (game.teams[t].teamEliminated /\ game'.teams[t].teamEliminated)
          => /\ \A p \in PlayersOf(game, t) :
                   game'.players[p].playerAlive => game.players[p].playerAlive
             /\ game'.teams[t].teamRevivesLeft = game.teams[t].teamRevivesLeft
             /\ game'.teams[t].teamPlayersAlive <= game.teams[t].teamPlayersAlive]_vars

(* C12: a revive of an ineligible player (already alive, owning squad not  *)
(* found, no revives remaining, or playersAlive == 0) is rejected and      *)
(* changes no squad and no player; a revive of an eligible player sets the *)
(* player alive, takes one from the squad's revivesRemaining and adds one  *)
(* to its playersAlive.  Eligible is read off the state.  Every step in    *)
(* which a player comes back alive is the revive of an eligible player and *)
(* does exactly that; revivesRemaining moves in no other step of a round;  *)
(* and the revive of an eligible player is never turned down.              *)
Eligible(g, p) ==
    /\ ~g.players[p].playerAlive
    /\ g.players[p].playerTeam \in DOMAIN g.teams
    /\ g.teams[g.players[p].playerTeam].teamRevivesLeft > 0
    /\ g.teams[g.players[p].playerTeam].teamPlayersAlive > 0

BackAlive(p) == ~game.players[p].playerAlive /\ game'.players[p].playerAlive

C12_ReviveOnlyIfEligible ==
    [][/\ \A p \in DOMAIN game.players :
             BackAlive(p)
             => /\ Eligible(game, p)
                /\ LET t == game.players[p].playerTeam
                   IN  game' = [game EXCEPT
                          !.players[p].playerAlive = TRUE,
                          !.teams[t].teamRevivesLeft = @ - 1,
                          !.teams[t].teamPlayersAlive = @ + 1]
       /\ \A t \in Squads :
             game'.teams[t].teamRevivesLeft # game.teams[t].teamRevivesLeft
             => \/ \E p \in PlayersOf(game, t) : BackAlive(p)
                \/ game'.teams[t].teamRevivesLeft = 4
       /\ \A p \in DOMAIN game.players :
             Eligible(game, p)
             => ENABLED (ReviveEvent(p) /\ game'.players[p].playerAlive)]_vars

\* revives were accepted until none was left, and the player of no squad
\* is dead: the next revive of either dead player is of an ineligible one
C12_Witness ==
    /\ \E t \in Squads :
          /\ game.teams[t].teamRevivesLeft = 0
          /\ game.teams[t].teamPlayersAlive > 0
          /\ \E p \in PlayersOf(game, t) : ~game.players[p].playerAlive
    /\ \E p \in DOMAIN game.players :
          /\ game.players[p].playerTeam \notin Squads
          /\ ~game.players[p].playerAlive

(* C13: startRound(n) fails for every n outside [0,7), n == 7 and negative *)
(* n included, and leaves the round state as it was; it succeeds only for  *)
(* 0 <= n < 7.  A failed call is no step, so: no step leaves the match in  *)
(* a round of another index unless that index is one of 0..6.              *)
C13_RoundIndexValidated ==
    [][game'.gameRound # game.gameRound
          => game'.gameRound \in 0 .. 6]_vars

(* C14: after every startRound(n), whatever state the previous round ended *)
(* in, every squad has revivesRemaining 4, playersAlive 4 and eliminated   *)
(* false, every player has pinged false, roundElapsedSecs is 0 and         *)
(* suddenDeath false; roundsWon of every squad is what it was.  A step     *)
(* starts a round when the match loop calls startNewRound or when a round  *)
(* is restarted inside SpecSquad.                                          *)
StartsRound ==
    \/ pc = "matchLoop" /\ pc' = "roundLoop"
    \/ \E n \in RoundIndices : SquadNewRound(n)

C14_RoundReset ==
    [][StartsRound
          => /\ \A t \in Squads :
                   /\ game'.teams[t].teamRevivesLeft = 4
                   /\ game'.teams[t].teamPlayersAlive = 4
                   /\ game'.teams[t].teamEliminated = FALSE
             /\ \A p \in DOMAIN game.players : game'.players[p].playerPinged = FALSE
             /\ game'.roundTimerSecs = 0
             /\ game'.roundInSuddenDeath = FALSE
             /\ DOMAIN game'.teams = DOMAIN game.teams
             /\ Scores(game') = Scores(game)]_vars

\* round 1 has just started after a round in which the squad lost a player:
\* the counters are fresh and the dead player of the last round is on record
C14_Witness ==
    /\ game.gameRound = 1
    /\ ~game.roundInSuddenDeath
    /\ \A p \in DOMAIN game.players : ~game.players[p].playerPinged
    /\ \E t \in Squads :
          /\ game.teams[t].teamRevivesLeft = 4
          /\ game.teams[t].teamPlayersAlive = 4
          /\ ~game.teams[t].teamEliminated
          /\ \E p \in PlayersOf(game, t) : ~game.players[p].playerAlive

(* C15: within a round no tick, death or revive takes a squad's eliminated *)
(* flag from true to false; only the start of a round clears it.           *)
C15_EliminationMonotone ==
    [][\A t \in Squads :
          (game.teams[t].teamEliminated /\ ~game'.teams[t].teamEliminated)
             => StartsRound]_vars

\* an eliminated squad had a player revived and is eliminated still
C15_Witness ==
    \E t \in Squads :
       /\ game.teams[t].teamEliminated
       /\ game.teams[t].teamRevivesLeft < 4
       /\ \E p \in PlayersOf(game, t) : game.players[p].playerAlive

(* C16: once suddenDeath is true in a round it stays true through every   *)
(* later tick, death, revive and endRound; the next startRound is the only *)
(* operation that sets it to false.                                        *)
C16_SuddenDeathLatch ==
    [][(game.roundInSuddenDeath /\ ~game'.roundInSuddenDeath)
          => StartsRound]_vars

\* a round that went into sudden death has been ended and no round started
\* since: suddenDeath is still true
C16_Witness ==
    /\ pc = "matchLoop"
    /\ game.roundEnded
    /\ ~game.roundStarted
    /\ game.roundInSuddenDeath

(* C17: outside sudden death a death of an alive player P of squad S sets  *)
(* P.alive false and takes exactly one from S.playersAlive, and            *)
(* S.eliminated becomes true exactly when playersAlive reaches 0: from a   *)
(* fresh round four deaths and no revive leave playersAlive 0 and          *)
(* eliminated true, fewer leave eliminated false.  The death of P is the   *)
(* step in which P's alive flag falls.                                     *)
Dies(p) == game.players[p].playerAlive /\ ~game'.players[p].playerAlive

C18_StartedXorEnded ==
    ~(game.roundStarted /\ game.roundEnded)

\* a round was ended (and endRound may be called again on this state) after
\* sudden death and an elimination
C18_Witness ==
    /\ ~game.roundStarted
    /\ game.roundEnded
    /\ game.roundInSuddenDeath
    /\ \E t \in Squads : game.teams[t].teamEliminated

(* C19: each tick of an active round adds exactly 1 to the roundElapsedSecs *)
(* the match state stores, so after k ticks of a round the stored value is  *)
(* k, and it is 0 right after startRound.  The local roundTimerSecs of the  *)
(* round loop is the number of ticks of the round so far.                   *)
C19_StoredElapsedCountsTicks ==
    (pc \in {"roundLoop", "waiting", "roundOutcome"})
       => game.roundTimerSecs = roundTimerSecs

(* C20: squad and player state stay in sync: in every reachable state and  *)
(* for every squad S, S.playersAlive is the number of S's four players     *)
(* whose alive flag is true, in the normal phase and after a sudden-death  *)
(* elimination alike.                                                      *)
C20_PlayersAliveInSync ==
    \A t \in Squads :
       game.teams[t].teamPlayersAlive =
          Cardinality({p \in PlayersOf(game, t) : game.players[p].playerAlive})

----------------------------------------------------------------------------
(* C21: in every reachable state at most one squad has roundsWon >= 2 and  *)
(* no squad has roundsWon above 2, so when the game has ended the squads   *)
(* that have won the match are none or one.                                *)
C21_UniqueWinner ==
    /\ Cardinality(Winners(game)) <= 1
    /\ \A i \in Squads : game.teams[i].teamScore <= 2
    /\ pc = "done" => Cardinality({i \in Squads : hasWonGame(game.teams[i])}) <= 1

\* the game has ended with a winner, and another squad had won a round too
C21_Witness ==
    /\ pc = "done"
    /\ game.gameEnded
    /\ \E i \in Squads : game.teams[i].teamScore = 2
    /\ \E j \in Squads : game.teams[j].teamScore = 1

(* C22: the sum of all squads' roundsWon never exceeds the number of       *)
(* completed rounds; a game ends with no winner only if one of its rounds  *)
(* was contested; and if every round played awards a round win, some squad *)
(* is at two round wins after at most 7 rounds.  roundNumber counts the    *)
(* rounds ended; at "endRound" the round just resolved is not counted yet. *)
(* A round awards one win or is contested, so the contested rounds are the *)
(* completed ones less the wins.                                           *)
RECURSIVE SumOver(_, _)
SumOver(f, ids) ==
    IF ids = {} THEN 0
    ELSE LET i == CHOOSE j \in ids : TRUE
         IN  f[i] + SumOver(f, ids \ {i})

TotalWins == SumOver(Scores(game), Squads)

RoundsResolved == roundNumber + (IF pc = "endRound" THEN 1 ELSE 0)

C23_Termination ==
    /\ [](roundTimerSecs <= 720 /\ roundNumber <= 7)
    /\ [](pc = "roundOutcome" /\ Cardinality(Unelim(game)) > 1
             => roundTimerSecs = 720)
    /\ <>[](pc = "done" /\ game.gameEnded)

\* seven rounds were played by several squads, the last one ran its 720
\* ticks with a death delivered in its sudden death, and the game has ended
C23_Witness ==
    /\ pc = "done"
    /\ game.gameEnded
    /\ roundNumber = 7
    /\ roundTimerSecs = 720
    /\ sdDied # {}
    /\ Cardinality(Squads) > 1

====
